---- MODULE Spec2Model ----
(***************************************************************************)
(* Model of dreye.core.domain.Domain: a sorted 1-D axis of sample          *)
(* coordinates with a sampling interval, its two construction paths and    *)
(* its operations equalize_domains, append, extend, enforce_uniformity.    *)
(*                                                                         *)
(* Numbers are exact rationals [n, d] (d > 0, lowest terms): the code      *)
(* divides spans by point counts, so integers are not enough.  Units are   *)
(* not modelled: every Domain is in the same unit and optional_to / to     *)
(* leave magnitudes as they are.                                           *)
(***************************************************************************)
EXTENDS Integers, Sequences, FiniteSets, TLC

\* ------------------------------------------------------------------ bounds
MaxCoord == 3        \* coordinates handed to the constructor: 0..MaxCoord
MaxStep == 2         \* scalar intervals handed to the constructor: 1..MaxStep
MaxLen == 2          \* longest values array handed to the constructor
MaxExtend == 1       \* largest length handed to extend
MaxGaps == MaxLen + 1  \* longest per-gap interval sequence

\* --------------------------------------------------------------- rationals
Abs(x) == IF x < 0 THEN 0 - x ELSE x

RECURSIVE GCD(_, _)
GCD(a, b) == IF b = 0 THEN a ELSE GCD(b, a % b)

Rat(n, d) == LET g == GCD(Abs(n), d) IN [n |-> n \div g, d |-> d \div g]
I(k) == [n |-> k, d |-> 1]
Zero == I(0)

RAdd(a, b) == Rat(a.n * b.d + b.n * a.d, a.d * b.d)
RSub(a, b) == Rat(a.n * b.d - b.n * a.d, a.d * b.d)
RMulI(a, k) == Rat(a.n * k, a.d)
RDivI(a, k) == Rat(a.n, a.d * k)                  \* k > 0
RLt(a, b) == a.n * b.d < b.n * a.d
RGt(a, b) == RLt(b, a)
QFloor(a, b) == (a.n * b.d) \div (a.d * b.n)      \* floor(a / b), b > 0

RECURSIVE RSum(_)
RSum(s) == IF s = <<>> THEN Zero ELSE RAdd(Head(s), RSum(Tail(s)))

\* numpy.cumsum
RECURSIVE CumSumFrom(_, _)
CumSumFrom(acc, s) ==
    IF s = <<>> THEN <<>>
    ELSE <<RAdd(acc, Head(s))>> \o CumSumFrom(RAdd(acc, Head(s)), Tail(s))

\* numpy.diff
Diff(v) == [i \in 1..(Len(v) - 1) |-> RSub(v[i + 1], v[i])]

Range(s) == {s[i] : i \in 1..Len(s)}
IsSorted(v) == \A i \in 1..(Len(v) - 1) : ~RLt(v[i + 1], v[i])
IsUnique(v) == Cardinality(Range(v)) = Len(v)

\* ------------------------------------------------------- values and results
\* An interval argument or attribute: a single number ("numeric", gaps holds
\* that one number), a per-gap sequence ("list") or nothing at all ("none").
NoInterval == [kind |-> "none", gaps |-> <<>>]
Scalar(x) == [kind |-> "numeric", gaps |-> <<x>>]
Listed(g) == [kind |-> "list", gaps |-> g]

is_listlike(interval) == interval.kind = "list"
is_numeric(interval) == interval.kind = "numeric"

\* The fields a Domain holds after __init__.
MkDomain(start, end, interval, values) ==
    [start |-> start, end |-> end, interval |-> interval, values |-> values]
NoDomain == MkDomain(Zero, Zero, NoInterval, <<>>)

\* What a call hands back: a value, or the exception that left it.
Returned(values, interval) ==
    [ok |-> TRUE, errclass |-> "", errsite |-> "",
     values |-> values, interval |-> interval]
Raised(class, site) ==
    [ok |-> FALSE, errclass |-> class, errsite |-> site,
     values |-> <<>>, interval |-> NoInterval]

\* ---------------------------------------------------- dreye.utilities
\* How arange turns span / step into a whole number of steps when the step
\* does not divide the span.  Fixed for a run, not known from the sources.
Roundings == {"floor", "nearest"}

VARIABLES rounding, recv, ret

vars == <<rounding, recv, ret>>

\* numpy.around of a / b: to the nearest integer, ties to the even one.
QNearest(a, b) ==
    LET f == QFloor(a, b)
        twice == RSub(RMulI(Rat(a.n * b.d, a.d * b.n), 2), I(2 * f + 1))
    IN  IF twice.n < 0 THEN f
        ELSE IF twice.n > 0 THEN f + 1
        ELSE IF f % 2 = 0 THEN f ELSE f + 1

ArangeSteps(span, step) ==
    IF rounding = "floor" THEN QFloor(span, step) ELSE QNearest(span, step)

\* arange(start, end, interval): evenly spaced points from start to end, both
\* included, and the spacing achieved.  A step that is not positive cannot be
\* walked from start up to end.
arange(start, end, interval) ==
    IF ~RGt(interval, Zero)
    THEN Raised("ValueError", "arange")
    ELSE LET span == RSub(end, start)
             num == ArangeSteps(span, interval)
             achieved == RDivI(span, num)
         IN  Returned([i \in 1..(num + 1) |-> RAdd(start, RMulI(achieved, i - 1))],
                      Scalar(achieved))

\* is_uniform(values): one and the same gap between every two neighbours.
is_uniform_array(values) ==
    /\ Len(values) >= 2
    /\ \A i \in 1..(Len(values) - 1) :
          RSub(values[i + 1], values[i]) = RSub(values[2], values[1])

\* array_domain(values, uniform): the interval part; start and end are the
\* first and the last value.
array_domain(values, uniform) ==
    IF uniform THEN Scalar(RSub(values[2], values[1]))
    ELSE Listed(Diff(values))

\* ------------------------------------------------------ Domain construction
\* Domain._create_values
list_interval_diff(start, end, interval) ==
    RSub(RSub(end, start), RSum(interval.gaps))

\* Variant of completed_gaps that leaves the gaps as supplied.
supplied_gaps(start, end, interval) == interval.gaps

completed_gaps(start, end, interval) ==
    LET interval_diff == list_interval_diff(start, end, interval)
    IN  IF RGt(interval_diff, Zero)
        THEN Append(interval.gaps, interval_diff)
        ELSE interval.gaps

\* Variant of overspecified that lets every gap sequence through.
overspecified_never(interval_diff) == FALSE

\* _create_values, line 134
overspecified(interval_diff) == RLt(interval_diff, Zero)

\* _create_values, line 148
interval_too_large(start, end, interval) ==
    RGt(interval.gaps[1], RSub(end, start))

\* Variant of _create_values in which the scalar branch compares the
\* interval with the span before it looks for a single point.
_create_values_span_first(start, end, interval) ==
    IF is_listlike(interval)
    THEN LET interval_diff == list_interval_diff(start, end, interval)
             gaps == completed_gaps(start, end, interval)
             values == <<start>> \o CumSumFrom(start, gaps)
         IN  IF overspecified(interval_diff)
             THEN Raised("DreyeError", "overspecified")
             ELSE IF ~IsUnique(values)
             THEN Raised("DreyeError", "non_unique")
             ELSE Returned(values, Listed(gaps))
    ELSE IF is_numeric(interval)
    THEN IF interval_too_large(start, end, interval)
         THEN Raised("DreyeError", "interval_too_large")
         ELSE IF end = start
         THEN Returned(<<start>>, interval)
         ELSE arange(start, end, interval.gaps[1])
    ELSE Raised("DreyeError", "interval_type")

\* Domain._create_values
_create_values(start, end, interval) ==
    IF is_listlike(interval)
    THEN LET interval_diff == list_interval_diff(start, end, interval)
             gaps == completed_gaps(start, end, interval)
             values == <<start>> \o CumSumFrom(start, gaps)
         IN  IF overspecified(interval_diff)
             THEN Raised("DreyeError", "overspecified")
             ELSE IF ~IsUnique(values)
             THEN Raised("DreyeError", "non_unique")
             ELSE Returned(values, Listed(gaps))
    ELSE IF is_numeric(interval)
    THEN IF end = start
         THEN Returned(<<start>>, interval)
         ELSE IF interval_too_large(start, end, interval)
         THEN Raised("DreyeError", "interval_too_large")
         ELSE arange(start, end, interval.gaps[1])
    ELSE Raised("DreyeError", "interval_type")

\* What a constructor call or a method call ends with: the Domain it returns
\* or the exception it raises, whether the Domain returned is the receiver
\* object itself, whether a RuntimeWarning was emitted, and the steps of
\* equalize_domains the call went through.
Ok(dom) ==
    [ok |-> TRUE, errclass |-> "", errsite |-> "", dom |-> dom,
     is_self |-> FALSE, warned |-> FALSE, steps |-> {}]
Fail(class, site) ==
    [ok |-> FALSE, errclass |-> class, errsite |-> site, dom |-> NoDomain,
     is_self |-> FALSE, warned |-> FALSE, steps |-> {}]

\* An optional argument: <<>> is None, <<x>> is x.
None == <<>>
Some(x) == <<x>>

\* Variant of assign_from_triple that stores the interval as supplied
\* instead of the one _create_values returns.
assign_from_triple_as_supplied(start, end, interval) ==
    IF start = None \/ end = None \/ interval.kind = "none"
    THEN Fail("DreyeError", "missing_parameter")
    ELSE LET made == _create_values(start[1], end[1], interval)
         IN  IF made.ok
             THEN Ok(MkDomain(start[1], end[1], interval, made.values))
             ELSE Fail(made.errclass, made.errsite)

\* Domain._test_and_assign_values, the branch taken when values is None.
assign_from_triple(start, end, interval) ==
    IF start = None \/ end = None \/ interval.kind = "none"
    THEN Fail("DreyeError", "missing_parameter")
    ELSE LET made == _create_values(start[1], end[1], interval)
         IN  IF made.ok
             THEN Ok(MkDomain(start[1], end[1], made.interval, made.values))
             ELSE Fail(made.errclass, made.errsite)

\* Domain._test_and_assign_values, the branch taken when values is given
\* (a 1-dimensional array of at least one number).
assign_from_values(values, interval) ==
    IF ~IsSorted(values)
    THEN Fail("DreyeError", "not_sorted")
    ELSE IF Len(values) = 1 /\ interval.kind = "none"
    THEN Fail("AssertionError", "need_interval")
    ELSE LET start == values[1]
             end == values[Len(values)]
             derived == IF Len(values) = 1 THEN interval
                        ELSE array_domain(values, is_uniform_array(values))
             made == _create_values(start, end, derived)
         IN  IF made.ok
             THEN Ok(MkDomain(start, end, made.interval, made.values))
             ELSE Fail(made.errclass, made.errsite)

\* Domain.__init__
Domain(start, end, interval, values) ==
    IF values = None
    THEN assign_from_triple(start, end, interval)
    ELSE assign_from_values(values[1], interval)

\* ---------------------------------------------------------- Domain queries
\* Domain.is_uniform
is_uniform(self) == is_numeric(self.interval)

\* _UnitArray.magnitude
magnitude(self) == self.values

\* numpy.gradient of a 1-dimensional array of at least two numbers.
np_gradient(v) ==
    [i \in 1..Len(v) |->
        IF i = 1 THEN RSub(v[2], v[1])
        ELSE IF i = Len(v) THEN RSub(v[i], v[i - 1])
        ELSE RDivI(RSub(v[i + 1], v[i - 1]), 2)]

\* numpy.mean of a non-empty array.
np_mean(v) == RDivI(RSum(v), Len(v))

\* ------------------------------------------------------------- operands
\* What a caller can pass as `other` / `domain`: a Domain, a 1-dimensional
\* array-like, a single number, or something else altogether.
DomainArg(d) == [type |-> "Domain", dom |-> d, values |-> d.values]
ArrayArg(v) == [type |-> "array", dom |-> NoDomain, values |-> v]
NumberArg(x) == [type |-> "number", dom |-> NoDomain, values |-> <<x>>]
OtherArg == [type |-> "other", dom |-> NoDomain, values |-> <<>>]

\* _UnitArray.__eq__: deep equality of two Domains.
deep_equal(self, other) == other.type = "Domain" /\ other.dom = self

\* _UnitArray.copy: a new object with the same contents.
copy(self) == Ok(self)

\* _UnitArray.init_kwargs: the keyword arguments append hands to the new
\* Domain besides values and units (contexts, attrs, name); no interval.
init_kwargs_interval(self) == NoInterval

\* -------------------------------------------------------------- operations
\* Domain.enforce_uniformity, lines 227-236, with method = numpy.mean.
rebuilt_uniform(self, on_gradient) ==
    IF on_gradient /\ Len(magnitude(self)) < 2
    THEN Fail("ValueError", "gradient")
    ELSE LET value == IF on_gradient THEN np_mean(np_gradient(magnitude(self)))
                      ELSE np_mean(self.interval.gaps)
             made == _create_values(self.start, self.end, Scalar(value))
         IN  IF made.ok
             THEN Ok(MkDomain(self.start, self.end, made.interval, made.values))
             ELSE Fail(made.errclass, made.errsite)

\* Variant of enforce_uniformity that rebuilds a uniform Domain too.
enforce_uniformity_rebuild(self, on_gradient) ==
    IF is_uniform(self)
    THEN LET made == _create_values(self.start, self.end, self.interval)
         IN  IF made.ok
             THEN Ok(MkDomain(self.start, self.end, made.interval, made.values))
             ELSE Fail(made.errclass, made.errsite)
    ELSE rebuilt_uniform(self, on_gradient)

\* Domain.enforce_uniformity
enforce_uniformity(self, on_gradient) ==
    IF is_uniform(self)
    THEN [Ok(self) EXCEPT !.is_self = TRUE]
    ELSE rebuilt_uniform(self, on_gradient)

\* Variant of enforce_uniformity_receiver in which the rebuilt values and
\* interval are assigned to the receiver itself.
enforce_uniformity_in_place(self, on_gradient) ==
    LET r == enforce_uniformity(self, on_gradient)
    IN  IF r.ok /\ ~r.is_self THEN r.dom ELSE self

\* Domain.enforce_uniformity, lines 233-235: the receiver's fields after the
\* call.  The rebuilt values and interval are assigned to `new`, a copy.
enforce_uniformity_receiver(self, on_gradient) == self

\* equalize_domains, lines 255-273: other as (start, end, interval).
Coerced(start, end, interval) ==
    [ok |-> TRUE, errclass |-> "", errsite |-> "",
     start |-> start, end |-> end, interval |-> interval]
NotCoerced(class, site) ==
    [ok |-> FALSE, errclass |-> class, errsite |-> site,
     start |-> Zero, end |-> Zero, interval |-> NoInterval]

coerce_other(self, other) ==
    IF other.type = "Domain"
    THEN Coerced(other.dom.start, other.dom.end, other.dom.interval)
    ELSE IF other.type = "array"
    THEN IF ~is_uniform_array(other.values)
         THEN NotCoerced("DreyeError", "other_not_uniform")
         ELSE Coerced(other.values[1], other.values[Len(other.values)],
                      array_domain(other.values, TRUE))
    ELSE NotCoerced("DreyeError", "wrong_type")

\* equalize_domains, lines 281-284
clamp_start(self, start) == IF RLt(start, self.start) THEN self.start ELSE start
\* Variant of clamp_end that always takes the receiver's end.
clamp_end_receiver(self, end) == self.end
\* equalize_domains, lines 283-284
clamp_end(self, end) == IF RGt(end, self.end) THEN self.end ELSE end

\* Variant of ranges_disjoint that also rejects ranges touching at one end.
ranges_disjoint_touching(self, start, end) ==
    ~RLt(start, self.end) \/ ~RGt(end, self.start)

\* equalize_domains, line 275
ranges_disjoint(self, start, end) ==
    RGt(start, self.end) \/ RLt(end, self.start)

\* Variant of coarser_interval that keeps the finer interval.
finer_interval(self, interval) ==
    IF RGt(interval.gaps[1], self.interval.gaps[1]) THEN self.interval
    ELSE interval

\* equalize_domains, lines 285-286.  `interval < self.interval` is an
\* elementwise comparison when other's interval is a per-gap array, and
\* `if` takes the truth value of an array of exactly one element only.
has_truth_value(interval) == Len(interval.gaps) = 1
coarser_interval(self, interval) ==
    IF RLt(interval.gaps[1], self.interval.gaps[1]) THEN self.interval
    ELSE interval

\* Variant of equalized that never warns.
equalized_silent(self, start, end, interval) ==
    Domain(Some(start), Some(end), interval, None)

\* equalize_domains, lines 288-299: build the Domain, warn if not uniform.
equalized(self, start, end, interval) ==
    LET domain == Domain(Some(start), Some(end), interval, None)
    IN  IF domain.ok
        THEN [domain EXCEPT !.warned = ~is_uniform(domain.dom)]
        ELSE domain

\* Domain.equalize_domains, lines 255-299: the path taken when other is
\* not equal to self.
equalize_other(self, other) ==
    LET c == coerce_other(self, other)
    IN  IF ~c.ok
        THEN [Fail(c.errclass, c.errsite) EXCEPT !.steps = {"coerce"}]
        ELSE IF ranges_disjoint(self, c.start, c.end)
        THEN [Fail("DreyeError", "disjoint") EXCEPT
                 !.steps = {"coerce", "disjoint"}]
        ELSE IF ~has_truth_value(c.interval)
        THEN [Fail("ValueError", "interval_compare") EXCEPT
                 !.steps = {"coerce", "disjoint", "clamp"}]
        ELSE [equalized(self, clamp_start(self, c.start),
                        clamp_end(self, c.end),
                        coarser_interval(self, c.interval)) EXCEPT
                 !.steps = {"coerce", "disjoint", "clamp", "construct"}]

\* Variant of equalize_domains without the self == other short cut.
equalize_domains_no_shortcut(self, other) ==
    IF ~is_uniform(self)
    THEN [Fail("DreyeError", "self_not_uniform") EXCEPT !.steps = {"uniform"}]
    ELSE LET out == equalize_other(self, other)
         IN  [out EXCEPT !.steps = {"uniform"} \cup out.steps]

\* Variant of equalize_domains that tests self == other before uniformity.
equalize_domains_equal_first(self, other) ==
    IF deep_equal(self, other)
    THEN [copy(self) EXCEPT !.steps = {"equal"}]
    ELSE IF ~is_uniform(self)
    THEN [Fail("DreyeError", "self_not_uniform") EXCEPT
             !.steps = {"equal", "uniform"}]
    ELSE LET out == equalize_other(self, other)
         IN  [out EXCEPT !.steps = {"uniform", "equal"} \cup out.steps]

\* Domain.equalize_domains
equalize_domains(self, other) ==
    IF ~is_uniform(self)
    THEN [Fail("DreyeError", "self_not_uniform") EXCEPT !.steps = {"uniform"}]
    ELSE IF deep_equal(self, other)
    THEN [copy(self) EXCEPT !.steps = {"uniform", "equal"}]
    ELSE LET out == equalize_other(self, other)
         IN  [out EXCEPT !.steps = {"uniform", "equal"} \cup out.steps]

\* Domain.append, lines 318-321
concatenate(self, values, left) ==
    IF left THEN values \o magnitude(self) ELSE magnitude(self) \o values

\* Domain.append
append(self, domain, left) ==
    IF domain.type = "other"
    THEN Fail("DreyeError", "append_type")
    ELSE Domain(None, None, init_kwargs_interval(self),
                Some(concatenate(self, domain.values, left)))

\* A length argument: an integer, or a number that is no integer.
IntLength(k) == [is_integer |-> TRUE, k |-> k]
NonIntLength == [is_integer |-> FALSE, k |-> 0]

\* Domain.extend, lines 340-349
add_domain(self, length, left) ==
    IF left
    THEN [j \in 1..length |->
             RSub(self.start, RMulI(self.interval.gaps[1], length - (j - 1)))]
    ELSE [j \in 1..length |->
             RAdd(self.end, RMulI(self.interval.gaps[1], j))]

\* Domain.extend
extend(self, length, left) ==
    IF ~length.is_integer
    THEN Fail("AssertionError", "length_not_integer")
    ELSE IF ~is_uniform(self)
    THEN Fail("AssertionError", "extend_not_uniform")
    ELSE append(self, ArrayArg(add_domain(self, length.k, left)), left)

\* ------------------------------------------------------------------ inputs
Coords == {I(c) : c \in 0..MaxCoord}
OptCoords == {None} \cup {Some(c) : c \in Coords}
ScalarIntervals == {Scalar(I(k)) : k \in 1..MaxStep}
\* Entries of a per-gap sequence: a step, zero, or one step backwards.
Gaps == {I(g) : g \in (0 - 1)..MaxStep}
GapIntervals == UNION {{Listed(g) : g \in [1..n -> Gaps]} : n \in 1..MaxGaps}
ValueArrays == UNION {[1..n -> Coords] : n \in 1..MaxLen}
\* Arrays passed as an operand: the empty array, every shorter array, and
\* the longest ones when they ascend.
OperandArrays ==
    UNION {[1..n -> Coords] : n \in 0..(MaxLen - 1)}
        \cup {v \in [1..MaxLen -> Coords] : IsSorted(v)}
Lengths == {NonIntLength} \cup {IntLength(k) : k \in 0..MaxExtend}

\* The Domains a caller can hold as the operand of equalize_domains and
\* append: built from a triple with a scalar interval or with a per-gap
\* sequence of one entry, or from an array.
OperandDomains ==
    {o.dom : o \in {r \in {Domain(Some(s), Some(e), i, None) :
                              s \in Coords, e \in Coords, i \in ScalarIntervals}
                          \cup {Domain(Some(s), Some(e), Listed(<<g>>), None) :
                                   s \in Coords, e \in Coords, g \in Gaps}
                          \cup {Domain(None, None, NoInterval, Some(v)) :
                                   v \in ValueArrays} : r.ok}}

Operands(self) ==
    {DomainArg(self), OtherArg}
        \cup {DomainArg(d) : d \in OperandDomains}
        \cup {ArrayArg(v) : v \in OperandArrays}
        \cup {NumberArg(c) : c \in Coords}

\* ------------------------------------------------------------------- state
\* recv is the Domain object the caller holds (NoDomain before the first
\* successful construction); ret is the call that has just ended: which
\* operation, the receiver's fields as they were before the call, the
\* arguments, and the outcome.
NoArgs ==
    [start |-> None, end |-> None, interval |-> NoInterval, values |-> None,
     other |-> OtherArg, left |-> FALSE, length |-> NonIntLength,
     on_gradient |-> FALSE]

Call(op, before, args, out) ==
    [op |-> op, before |-> before, args |-> args, out |-> out]
NoRet == Call("none", NoDomain, NoArgs, Fail("", ""))

\* A result the caller keeps as its next receiver: only results within these
\* limits, so that the reachable Domains stay finitely many.
MaxPoints == MaxLen + 2
Reach == MaxCoord + MaxStep
Small(x) == x.d <= MaxStep /\ Abs(x.n) <= Reach * x.d
Kept(d) ==
    /\ Len(d.values) <= MaxPoints
    /\ \A i \in 1..Len(d.values) : Small(d.values[i])
    /\ \A i \in 1..Len(d.interval.gaps) : Small(d.interval.gaps[i])

Init ==
    /\ rounding \in Roundings
    /\ recv = NoDomain
    /\ ret = NoRet

\* Domain(start, end, interval) with a scalar interval or none
NewFromTriple ==
    /\ recv = NoDomain /\ ret = NoRet
    /\ \E start \in OptCoords, end \in OptCoords,
          interval \in ScalarIntervals \cup {NoInterval} :
          ret' = Call("new", recv,
                      [NoArgs EXCEPT !.start = start, !.end = end,
                                     !.interval = interval],
                      Domain(start, end, interval, None))
    /\ UNCHANGED <<rounding, recv>>

\* Domain(start, end, interval) with a per-gap interval sequence
NewFromGaps ==
    /\ recv = NoDomain /\ ret = NoRet
    /\ \E start \in Coords, end \in Coords, interval \in GapIntervals :
          ret' = Call("new", recv,
                      [NoArgs EXCEPT !.start = Some(start), !.end = Some(end),
                                     !.interval = interval],
                      Domain(Some(start), Some(end), interval, None))
    /\ UNCHANGED <<rounding, recv>>

\* Domain(values=...), with or without interval
NewFromValues ==
    /\ recv = NoDomain /\ ret = NoRet
    /\ \E values \in ValueArrays,
          interval \in ScalarIntervals \cup {NoInterval} :
          ret' = Call("new", recv,
                      [NoArgs EXCEPT !.values = Some(values),
                                     !.interval = interval],
                      Domain(None, None, interval, Some(values)))
    /\ UNCHANGED <<rounding, recv>>

\* recv.equalize_domains(other)
Equalize ==
    /\ recv # NoDomain /\ ret = NoRet
    /\ \E other \in Operands(recv) :
          ret' = Call("equalize_domains", recv,
                      [NoArgs EXCEPT !.other = other],
                      equalize_domains(recv, other))
    /\ UNCHANGED <<rounding, recv>>

\* recv.append(domain, left)
AppendOp ==
    /\ recv # NoDomain /\ ret = NoRet
    /\ \E domain \in Operands(recv), left \in BOOLEAN :
          ret' = Call("append", recv,
                      [NoArgs EXCEPT !.other = domain, !.left = left],
                      append(recv, domain, left))
    /\ UNCHANGED <<rounding, recv>>

\* recv.extend(length, left)
Extend ==
    /\ recv # NoDomain /\ ret = NoRet
    /\ \E length \in Lengths, left \in BOOLEAN :
          ret' = Call("extend", recv,
                      [NoArgs EXCEPT !.length = length, !.left = left],
                      extend(recv, length, left))
    /\ UNCHANGED <<rounding, recv>>

\* recv.enforce_uniformity(on_gradient=...)
EnforceUniformity ==
    /\ recv # NoDomain /\ ret = NoRet
    /\ \E on_gradient \in BOOLEAN :
          /\ ret' = Call("enforce_uniformity", recv,
                      [NoArgs EXCEPT !.on_gradient = on_gradient],
                      enforce_uniformity(recv, on_gradient))
          /\ recv' = enforce_uniformity_receiver(recv, on_gradient)
    /\ UNCHANGED rounding

\* The caller binds the returned Domain and goes on with it.
Rebind ==
    /\ ret # NoRet /\ ret.out.ok /\ Kept(ret.out.dom)
    /\ recv' = ret.out.dom
    /\ ret' = NoRet
    /\ UNCHANGED rounding

\* The caller lets the result, or the exception, go.
Drop ==
    /\ ret # NoRet
    /\ ret' = NoRet
    /\ UNCHANGED <<rounding, recv>>

Next ==
    \/ NewFromTriple
    \/ NewFromGaps
    \/ NewFromValues
    \/ Equalize
    \/ AppendOp
    \/ Extend
    \/ EnforceUniformity
    \/ Rebind
    \/ Drop

Spec == Init /\ [][Next]_vars

\* ------------------------------------------------------------------ claims
RMax(a, b) == IF RLt(a, b) THEN b ELSE a
RMin(a, b) == IF RLt(a, b) THEN a ELSE b
IsWholeMultiple(span, step) ==
    /\ RGt(step, Zero)
    /\ (span.n * step.d) % (span.d * step.n) = 0

\* The call that has just ended, by name.
Called(op) == ret.op = op
before == ret.before
out == ret.out
other == ret.args.other

\* C1: every Domain that is successfully produced, by either construction
\* path or by any sequence of equalize_domains, append, extend and
\* enforce_uniformity, has values sorted ascending with no duplicates.
C1_SortedUnique ==
    (ret # NoRet /\ out.ok) =>
        (IsSorted(out.dom.values) /\ IsUnique(out.dom.values))

\* A uniform receiver, a uniform Domain operand, ranges that overlap.
C2_Case ==
    /\ Called("equalize_domains")
    /\ is_numeric(before.interval)
    /\ other.type = "Domain" /\ is_numeric(other.dom.interval)
    /\ ~RGt(other.dom.start, before.end)
    /\ ~RLt(other.dom.end, before.start)
C2_Start == RMax(before.start, other.dom.start)
C2_End == RMin(before.end, other.dom.end)
C2_Interval == RMax(before.interval.gaps[1], other.dom.interval.gaps[1])

C3_Case ==
    /\ Called("equalize_domains")
    /\ is_numeric(before.interval)
    /\ \/ other.type = "Domain"
       \/ other.type = "array" /\ is_uniform_array(other.values)
C3_OtherStart == other.values[1]
C3_OtherEnd == other.values[Len(other.values)]
C3_Disjoint ==
    RGt(C3_OtherStart, before.end) \/ RLt(C3_OtherEnd, before.start)

\* C3 as stated: A.equalize_domains(B) fails exactly when B.start > A.end or
\* B.end < A.start.
C3_AsStated == C3_Case => (~out.ok <=> C3_Disjoint)

\* C3 amended: A.equalize_domains(B) fails at the disjointness check exactly
\* when B.start > A.end or B.end < A.start; ranges that share a point, also
\* a single end point, pass that check (the call can still fail later, when
\* the Domain is built from the clamped range).
C3_DisjointCheck ==
    C3_Case =>
        /\ (~out.ok /\ out.errsite = "disjoint") <=> C3_Disjoint
        /\ ~C3_Disjoint =>
              (other.dom = before \/ "disjoint" \in out.steps)

\* Witness of C3: ranges touching at a single end point pass the check and
\* the call returns a Domain.
C3_Witness ==
    /\ C3_Case /\ other.dom # before
    /\ C3_OtherStart = before.end /\ RLt(before.start, before.end)
    /\ "disjoint" \in out.steps /\ out.ok

\* C4: equalize_domains on a non-uniform receiver always fails, for every
\* operand including the receiver itself, at the uniformity check and
\* before anything else.
C4_NonUniformFails ==
    (Called("equalize_domains") /\ is_listlike(before.interval)) =>
        /\ ~out.ok
        /\ out.errsite = "self_not_uniform"
        /\ out.steps = {"uniform"}

\* Witness of C4: a non-uniform Domain equalized with itself.
C4_Witness ==
    /\ Called("equalize_domains") /\ is_listlike(before.interval)
    /\ other = DomainArg(before)
    /\ ~out.ok

\* A uniform receiver and an operand deep-equal to it.
C5_Case ==
    /\ Called("equalize_domains")
    /\ is_numeric(before.interval)
    /\ other.type = "Domain" /\ other.dom = before

\* C5: for a uniform Domain A and an operand deep-equal to A,
\* A.equalize_domains(operand) returns a copy value-equal to A and never
\* enters the coercion, disjointness or clamping steps.
C5_ShortCut ==
    C5_Case =>
        /\ out.ok /\ ~out.is_self
        /\ out.dom.start = before.start /\ out.dom.end = before.end
        /\ out.dom.interval = before.interval
        /\ out.dom.values = before.values
        /\ out.steps \cap {"coerce", "disjoint", "clamp", "construct"} = {}

\* Witness of C5: a uniform Domain of several points equalized with itself.
C5_Witness == C5_Case /\ out.ok /\ Len(out.dom.values) >= 2

\* Domain(start, end, interval) with a per-gap interval sequence.
C6_Gaps == ret.args.interval.gaps
C6_Span == RSub(ret.args.end[1], ret.args.start[1])
GapCall ==
    /\ Called("new") /\ ret.args.values = None
    /\ ret.args.start # None /\ ret.args.end # None
    /\ is_listlike(ret.args.interval)
C6_Case == GapCall /\ RLt(RSum(C6_Gaps), C6_Span)
C6_Completed == Append(C6_Gaps, RSub(C6_Span, RSum(C6_Gaps)))
C6_Points ==
    [k \in 1..(Len(C6_Gaps) + 2) |->
        RAdd(ret.args.start[1], RSum(SubSeq(C6_Completed, 1, k - 1)))]
C6_Result ==
    /\ out.ok
    /\ out.dom.interval = Listed(C6_Completed)
    /\ Len(out.dom.interval.gaps) = Len(C6_Gaps) + 1
    /\ Len(out.dom.values) = Len(C6_Gaps) + 2
    /\ out.dom.values[1] = ret.args.start[1]
    /\ out.dom.values[Len(out.dom.values)] = ret.args.end[1]

\* C6 as stated: a per-gap interval whose sum is strictly less than
\* end - start always constructs, with one gap (end - start) - sum appended
\* and len(interval) + 2 points from start to end.
C6_AsStated == C6_Case => C6_Result

\* C6 amended: a per-gap interval whose sum is strictly less than
\* end - start constructs, with one gap (end - start) - sum appended and
\* len(interval) + 2 points from start to end, when those points are
\* pairwise distinct; when two of them coincide (a zero gap, or gaps that
\* cancel) construction fails at the uniqueness check.
C6_GapCompleted ==
    C6_Case =>
        IF IsUnique(C6_Points)
        THEN C6_Result /\ out.dom.values = C6_Points
        ELSE ~out.ok /\ out.errsite = "non_unique"

\* Witness of C6: start=0, end=3, interval=[1,1] gives [0,1,2,3].
C6_Witness ==
    /\ C6_Case /\ out.ok
    /\ ret.args.start = Some(I(0)) /\ ret.args.end = Some(I(3))
    /\ C6_Gaps = <<I(1), I(1)>>
    /\ out.dom.values = <<I(0), I(1), I(2), I(3)>>

\* C7: a per-gap interval whose sum is strictly greater than end - start
\* fails with an error and no Domain is produced.
C7_Overspecified ==
    (GapCall /\ RGt(RSum(C6_Gaps), C6_Span)) =>
        /\ ~out.ok
        /\ out.errclass = "DreyeError" /\ out.errsite = "overspecified"
        /\ out.dom = NoDomain

\* Witness of C7: start=0, end=2, interval=[1,1,1].
C7_Witness ==
    /\ GapCall /\ ~out.ok
    /\ ret.args.start = Some(I(0)) /\ ret.args.end = Some(I(2))
    /\ C6_Gaps = <<I(1), I(1), I(1)>>

\* The class of the error raised for an incomplete start/end/interval triple.
MissingParameterClass == assign_from_triple(None, None, NoInterval).errclass

\* C8: a one-element values array without an interval fails with the error
\* kind raised for an incomplete triple; with an explicit interval it
\* succeeds with start == end == the value, one value, the interval kept.
C8_SinglePoint ==
    (/\ Called("new") /\ ret.args.values # None
     /\ Len(ret.args.values[1]) = 1) =>
        IF ret.args.interval = NoInterval
        THEN ~out.ok /\ out.errclass = MissingParameterClass
        ELSE /\ out.ok
             /\ out.dom.start = ret.args.values[1][1]
             /\ out.dom.end = ret.args.values[1][1]
             /\ out.dom.values = ret.args.values[1]
             /\ out.dom.interval = ret.args.interval

\* The points extend is to add, as the claim lists them.
C9_K == ret.args.length.k
C9_Added ==
    IF ret.args.left
    THEN [j \in 1..C9_K |->
             RSub(before.start, RMulI(before.interval.gaps[1], C9_K - (j - 1)))]
    ELSE [j \in 1..C9_K |->
             RAdd(before.end, RMulI(before.interval.gaps[1], j))]
C9_Extended ==
    /\ out.ok
    /\ Len(out.dom.values) = Len(before.values) + C9_K
    /\ out.dom.values = IF ret.args.left THEN C9_Added \o before.values
                        ELSE before.values \o C9_Added
    /\ out.dom.interval = before.interval

\* C9: for a uniform Domain D with n points and an integer k >= 0,
\* D.extend(k) returns n + k points, D's values followed (preceded when
\* left) by k further points spaced by D.interval, uniform with D's
\* interval; a non-uniform D or a non-integer length fails.
C9_Extend ==
    Called("extend") =>
        IF is_numeric(before.interval) /\ ret.args.length.is_integer
        THEN C9_Extended
        ELSE ~out.ok

\* C10: enforce_uniformity on an already-uniform Domain returns the
\* identical instance, with start, end, interval and values unchanged.
C10_SameInstance ==
    (Called("enforce_uniformity") /\ is_numeric(before.interval)) =>
        /\ out.ok /\ out.is_self
        /\ out.dom = before
        /\ recv = before

\* Witness of C10: enforce_uniformity has returned on a uniform Domain of
\* several points.
C10_Witness ==
    /\ Called("enforce_uniformity") /\ is_numeric(before.interval)
    /\ out.ok /\ Len(before.values) >= 2

\* One of the four transformations has just ended.
Transformed ==
    ret.op \in {"equalize_domains", "append", "extend", "enforce_uniformity"}

\* C11 as stated: every transformation returns a new Domain and leaves the
\* receiver's start, end, interval and values as they were, whether it
\* succeeds or fails; enforce_uniformity on a non-uniform Domain returns a
\* distinct Domain with the same start and end and a scalar interval.
C11_AsStated ==
    Transformed =>
        /\ recv = before
        /\ out.ok => ~out.is_self
        /\ (Called("enforce_uniformity") /\ is_listlike(before.interval)) =>
              /\ out.ok /\ ~out.is_self
              /\ out.dom.start = before.start /\ out.dom.end = before.end
              /\ is_numeric(out.dom.interval)

\* C11 amended: every transformation leaves the receiver's start, end,
\* interval and values as they were, whether it succeeds or fails, and the
\* Domain it returns is a new one, except that enforce_uniformity on a
\* uniform Domain returns the receiver itself; enforce_uniformity on a
\* non-uniform Domain returns whenever the receiver's values ascend, and
\* when it returns it returns a distinct Domain with the same start and end
\* and a scalar interval while the receiver keeps its per-gap interval and
\* its values.
C11_ReceiverKept ==
    Transformed =>
        /\ recv.start = before.start /\ recv.end = before.end
        /\ recv.interval = before.interval /\ recv.values = before.values
        /\ out.ok =>
              (out.is_self <=>
                  (Called("enforce_uniformity") /\ is_numeric(before.interval)))
        /\ (Called("enforce_uniformity") /\ is_listlike(before.interval)
              /\ out.ok) =>
              /\ ~out.is_self
              /\ out.dom.start = before.start /\ out.dom.end = before.end
              /\ is_numeric(out.dom.interval)
              /\ is_listlike(recv.interval)
        /\ (Called("enforce_uniformity") /\ is_listlike(before.interval)
              /\ IsSorted(before.values)) => out.ok

\* Witness of C11: enforce_uniformity has rebuilt a non-uniform Domain of
\* ascending values into one with other values.
C11_Witness ==
    /\ Called("enforce_uniformity") /\ is_listlike(before.interval)
    /\ IsSorted(before.values)
    /\ out.ok /\ out.dom.values # before.values

\* ---------------------------------------------------------------------- C12
\* The start, end and interval a constructor call hands to _create_values:
\* the arguments themselves on the triple path, the first and last value and
\* the interval argument (one value) or the common gap (several evenly
\* spaced values) on the values path.
C12_Values == ret.args.values[1]
C12_Start ==
    IF ret.args.values = None THEN ret.args.start[1] ELSE C12_Values[1]
C12_End ==
    IF ret.args.values = None THEN ret.args.end[1]
    ELSE C12_Values[Len(C12_Values)]
C12_Interval ==
    IF ret.args.values = None \/ Len(C12_Values) = 1 THEN ret.args.interval
    ELSE array_domain(C12_Values, is_uniform_array(C12_Values))
C12_Case ==
    /\ Called("new")
    /\ out.errsite \notin {"missing_parameter", "not_sorted", "need_interval"}
    /\ is_numeric(C12_Interval)

\* C12: a Domain built with a scalar interval is the single point [start]
\* with the interval kept as supplied when start == end, whatever the
\* interval; otherwise construction fails when interval > end - start, and
\* succeeds when it is not.
C12_ScalarInterval ==
    C12_Case =>
        IF C12_Start = C12_End
        THEN /\ out.ok
             /\ out.dom = MkDomain(C12_Start, C12_End, C12_Interval,
                                   <<C12_Start>>)
        ELSE IF RGt(C12_Interval.gaps[1], RSub(C12_End, C12_Start))
        THEN ~out.ok /\ out.errclass = "DreyeError"
                /\ out.errsite = "interval_too_large"
        ELSE out.ok

\* A single point built from a triple whose interval exceeds the zero span.
C12_Witness ==
    /\ C12_Case /\ ret.args.values = None
    /\ C12_Start = C12_End
    /\ RGt(C12_Interval.gaps[1], RSub(C12_End, C12_Start))
    /\ out.ok /\ out.dom.values = <<C12_Start>>
    /\ out.dom.interval = ret.args.interval

\* ---------------------------------------------------------------------- C13
\* A call of equalize_domains that went as far as constructing the Domain,
\* and the clamped start, clamped end and chosen interval it constructed
\* the Domain from.
C13_Case == Called("equalize_domains") /\ "construct" \in out.steps
C13_Other == coerce_other(before, other)
C13_Start == clamp_start(before, C13_Other.start)
C13_End == clamp_end(before, C13_Other.end)
C13_Interval == coarser_interval(before, C13_Other.interval)
C13_Span == RSub(C13_End, C13_Start)
\* The clamped span does not divide evenly by the chosen scalar interval.
C13_Uneven ==
    /\ is_numeric(C13_Interval)
    /\ C13_Span # Zero
    /\ ~IsWholeMultiple(C13_Span, C13_Interval.gaps[1])

\* C13 as stated: when the clamped span does not divide evenly by the chosen
\* interval the constructed Domain is not uniform, a warning is emitted and
\* the Domain is returned; the call does not fail.
C13_AsStated ==
    (C13_Case /\ C13_Uneven) =>
        out.ok /\ out.warned /\ ~is_uniform(out.dom)

\* C13 amended: equalize_domains warns exactly when the Domain it constructed
\* carries a per-gap interval, and then still returns that Domain; this
\* happens only when other is a Domain whose interval is a per-gap sequence
\* of one entry that is not smaller than the receiver's interval.  With a
\* scalar chosen interval no warning is ever emitted and every Domain
\* returned is uniform: when the clamped span does not divide evenly by the
\* interval the call fails if the interval exceeds the span, and otherwise
\* returns a uniform Domain with the spacing achieved.
C13_WarnedWhenPerGap ==
    /\ (ret # NoRet /\ out.warned) => (C13_Case /\ out.ok)
    /\ C13_Case =>
          /\ out.ok => (out.warned <=> is_listlike(out.dom.interval))
          /\ out.ok => (is_listlike(out.dom.interval)
                            <=> is_listlike(C13_Interval))
          /\ is_listlike(C13_Interval) =>
                /\ other.type = "Domain"
                /\ Len(other.dom.interval.gaps) = 1
                /\ ~RLt(other.dom.interval.gaps[1], before.interval.gaps[1])
          /\ C13_Uneven =>
                IF RGt(C13_Interval.gaps[1], C13_Span)
                THEN ~out.ok /\ out.errsite = "interval_too_large"
                ELSE /\ out.ok /\ ~out.warned
                     /\ is_uniform(out.dom)
                     /\ out.dom.start = C13_Start /\ out.dom.end = C13_End

\* A non-uniform Domain returned with a warning.
C13_Witness ==
    /\ C13_Case /\ out.ok /\ out.warned
    /\ ~is_uniform(out.dom)
    /\ is_uniform(before)

\* ---------------------------------------------------------------------- C14
\* append called with a Domain, an array or a number, and the sequence it
\* concatenates.
C14_Case == Called("append") /\ other.type # "other"
C14_Concatenated ==
    IF ret.args.left THEN other.values \o before.values
    ELSE before.values \o other.values

\* C14: append hands the receiver's values followed (preceded when left) by
\* the operand's values to the values path: a sequence that does not ascend
\* fails at the sortedness check, an ascending sequence that repeats a
\* coordinate fails at the uniqueness check, and otherwise the Domain
\* returned has exactly the concatenated values.
C14_Append ==
    C14_Case =>
        IF ~IsSorted(C14_Concatenated)
        THEN ~out.ok /\ out.errsite = "not_sorted"
        ELSE IF ~IsUnique(C14_Concatenated)
        THEN ~out.ok /\ out.errsite = "non_unique"
        ELSE out.ok /\ out.dom.values = C14_Concatenated

\* ---------------------------------------------------------------------- C15
\* The triple and the values of a Domain agree.
C15_Consistent(d) ==
    /\ Len(d.values) >= 1
    /\ d.values[1] = d.start
    /\ d.values[Len(d.values)] = d.end
    /\ is_listlike(d.interval) =>
          /\ Len(d.interval.gaps) = Len(d.values) - 1
          /\ RSum(d.interval.gaps) = RSub(d.end, d.start)

\* C15: every Domain successfully produced, by either construction path or
\* by enforce_uniformity, append, extend or equalize_domains, has
\* values[0] == start and values[-1] == end, and a per-gap interval has
\* len(values) - 1 entries that sum to end - start.
C15_TripleAndValues ==
    /\ (ret # NoRet /\ out.ok) => C15_Consistent(out.dom)
    /\ recv # NoDomain => C15_Consistent(recv)

\* A non-uniform Domain returned by a transformation that added points to
\* a non-uniform Domain of several gaps.
C15_Witness ==
    /\ Transformed /\ out.ok
    /\ is_listlike(out.dom.interval)
    /\ Len(out.dom.values) > Len(before.values)
    /\ is_listlike(before.interval)
    /\ Len(before.values) >= 3

\* ---------------------------------------------------------------------- C16
\* A uniform receiver A equalized with a uniform Domain B, and the outcome
\* of the call the other way round, B.equalize_domains(A).
C16_Case ==
    /\ Called("equalize_domains")
    /\ is_uniform(before)
    /\ other.type = "Domain" /\ is_uniform(other.dom)
C16_Reverse == equalize_domains(other.dom, DomainArg(before))

\* C16: for two uniform Domains A and B, A.equalize_domains(B) fails if and
\* only if B.equalize_domains(A) fails, and when both succeed they return
\* Domains with the same start, end, interval and values.
C16_Symmetric ==
    C16_Case =>
        /\ out.ok <=> C16_Reverse.ok
        /\ out.ok => out.dom = C16_Reverse.dom

\* Two different uniform Domains equalized to a Domain of several points
\* that is neither of them.
C16_Witness ==
    /\ C16_Case /\ out.ok /\ C16_Reverse.ok
    /\ before # other.dom
    /\ out.dom # before /\ out.dom # other.dom
    /\ Len(out.dom.values) >= 2

\* Two overlapping uniform Domains that cannot be equalized either way.
C16_WitnessFails ==
    /\ C16_Case /\ ~out.ok /\ ~C16_Reverse.ok
    /\ out.errsite = "interval_too_large"

====
